---- MODULE Spec2Model ----
(***************************************************************************)
(* Model of src/card_detector.py: the CardDetector statistics aggregator   *)
(* and the run() session loop.                                             *)
(*                                                                         *)
(* Time is the integer reading of time.time() in clock ticks.  The         *)
(* external stop signal is Python's KeyboardInterrupt, which the           *)
(* interpreter raises between any two statements of the try block; it is   *)
(* delivered at most once per run.  A frame is the sequence of contours    *)
(* cv2.findContours returns for it, each with its area, bounding rectangle *)
(* and the pixels of its region of interest.                               *)
(***************************************************************************)
EXTENDS Integers, Sequences, FiniteSets, TLC

VARIABLES
    update_interval,        \* self.update_interval
    monitor_number,         \* self.monitor_number
    card_counts,            \* self.card_counts (defaultdict: keys created lazily)
    total_frames_processed, \* self.total_frames_processed
    total_cards_detected,   \* self.total_cards_detected
    session_start_time,     \* self.session_start_time (<<>> is None)
    last_update_time,       \* self.last_update_time (<<>> is None)
    fps_counter,            \* self.fps_counter
    current_fps,            \* self.current_fps, the quotient num / den
    duration,               \* run()'s argument (<<>> is None)
    current_time,           \* run()'s local current_time
    detected_cards,         \* capture_and_process_frame's detected_cards, its local
                            \* while it runs
    items,                  \* what is left of detected_cards.items()
    pc,                     \* position in run()
    exc,                    \* the exception being raised, "None" if none
    raised_at,              \* the position the exception was raised at
    clock,                  \* time.time()
    snapshot,               \* the statistics display_statistics printed last
    final_snapshots,        \* how often the final statistics were printed
    appends,                \* history: completed statistics updates
    call                    \* the last direct call of _identify_card_type or
                            \* detect_cards_in_frame: what it was given and returned

vars == <<update_interval, monitor_number, card_counts, total_frames_processed,
          total_cards_detected, session_start_time, last_update_time,
          fps_counter, current_fps, duration, current_time, detected_cards,
          items, pc, exc, raised_at, clock, snapshot, final_snapshots, appends,
          call>>

config == <<update_interval, monitor_number>>
stats == <<card_counts, total_frames_processed, total_cards_detected>>
perf == <<last_update_time, fps_counter, current_fps>>
output == <<snapshot, final_snapshots>>

-----------------------------------------------------------------------------
(* Bounds *)

MaxTime == 2            \* the clock stops advancing here
MaxInterval == 1        \* the largest update_interval tried
MaxDuration == 1        \* the largest duration tried
MaxFrames == 2          \* frames one run captures at most
MaxContours == 2        \* contours of a frame captured by run()
MaxCalls == 3           \* direct calls of capture_and_process_frame
MaxDirectContours == 5  \* contours of a frame captured by a direct call
MaxRegionPixels == 2    \* pixels of a region given to _identify_card_type
MaxDetectContours == 2  \* contours of a frame given to detect_cards_in_frame
NumMonitors == 1        \* monitors the screen-capture library reports

-----------------------------------------------------------------------------
(* Values *)

None == <<>>
Some(x) == <<x>>

Labels == {"heart_or_diamond", "spade_or_club", "unknown_card"}

UpdateIntervals == -1 .. MaxInterval
MonitorNumbers == {NumMonitors, NumMonitors + 1}
Durations == {None} \cup {Some(d) : d \in -1 .. MaxDuration}

\* A pixel is <<B, G, R>>.
RedPixel == <<50, 50, 200>>
BlackPixel == <<30, 30, 30>>
GrayPixel == <<100, 100, 100>>

Contour(area, w, h, pixels) == [area |-> area, w |-> w, h |-> h, pixels |-> pixels]

SampleContours ==
    { Contour(5000, 60, 100, <<RedPixel>>),
      Contour(5000, 60, 100, <<BlackPixel>>),
      Contour(5000, 60, 100, <<GrayPixel, RedPixel>>),
      Contour(999, 30, 40, <<RedPixel>>) }

Frames(n) == UNION {[1 .. k -> SampleContours] : k \in 0 .. n}

-----------------------------------------------------------------------------
(* _identify_card_type and detect_cards_in_frame *)

RECURSIVE ChannelSum(_, _)
ChannelSum(pixels, c) ==
    IF pixels = <<>> THEN 0 ELSE Head(pixels)[c] + ChannelSum(Tail(pixels), c)

\* avg_color[c] > t and avg_color[c] < t, the mean being ChannelSum / Len.
MeanAbove(pixels, c, t) == ChannelSum(pixels, c) > t * Len(pixels)
MeanBelow(pixels, c, t) == ChannelSum(pixels, c) < t * Len(pixels)

\* avg_color[2] > 150 and avg_color[0] < 100 and avg_color[1] < 100
RedFamily(roi) ==
    MeanAbove(roi, 3, 150) /\ MeanBelow(roi, 1, 100) /\ MeanBelow(roi, 2, 100)

\* Mutant: the black rule does not look at the red channel.
BlackFamilyIgnoresRed(roi) ==
    MeanBelow(roi, 1, 50) /\ MeanBelow(roi, 2, 50)

\* avg_color[0] < 50 and avg_color[1] < 50 and avg_color[2] < 50
BlackFamily(roi) ==
    MeanBelow(roi, 1, 50) /\ MeanBelow(roi, 2, 50) /\ MeanBelow(roi, 3, 50)

\* Mutant: the thresholds are inclusive.
IdentifyCardTypeInclusive(roi) ==
    IF Len(roi) = 0 THEN "None"
    ELSE IF /\ ~ MeanBelow(roi, 3, 150)
            /\ ~ MeanAbove(roi, 1, 100)
            /\ ~ MeanAbove(roi, 2, 100)
         THEN "heart_or_diamond"
    ELSE IF /\ ~ MeanAbove(roi, 1, 50)
            /\ ~ MeanAbove(roi, 2, 50)
            /\ ~ MeanAbove(roi, 3, 50)
         THEN "spade_or_club"
    ELSE "unknown_card"

\* Mutant: no test of roi.size; the mean of nothing is nan, every comparison
\* with it is false and the fallback label comes out.
IdentifyCardTypeNoSizeCheck(roi) ==
    IF Len(roi) = 0 THEN "unknown_card"
    ELSE IF RedFamily(roi) THEN "heart_or_diamond"
    ELSE IF BlackFamily(roi) THEN "spade_or_club"
    ELSE "unknown_card"

IdentifyCardType(roi) ==
    IF Len(roi) = 0 THEN "None"
    ELSE IF RedFamily(roi) THEN "heart_or_diamond"
    ELSE IF BlackFamily(roi) THEN "spade_or_club"
    ELSE "unknown_card"

\* Mutant: the lower limit is exclusive.
AreaRejectedExclusiveMin(area) == area <= 1000 \/ area > 100000

\* if area < 1000 or area > 100000: continue
AreaRejected(area) == area < 1000 \/ area > 100000

\* Mutant: the limits of the ratio are exclusive.
AspectRejectedExclusive(w, h) ==
    IF h > 0 THEN 2 * w <= h \/ 5 * w >= 4 * h ELSE TRUE

\* aspect_ratio = float(w) / h if h > 0 else 0, rejected below 0.5 or above 0.8
AspectRejected(w, h) ==
    IF h > 0 THEN 2 * w < h \/ 5 * w > 4 * h ELSE TRUE

\* frame_card_counts[card_type] += 1 on a defaultdict(int), kept in insertion order
TallyInc(tally, card_type) ==
    IF \E i \in 1 .. Len(tally) : tally[i][1] = card_type
    THEN [i \in 1 .. Len(tally) |->
            IF tally[i][1] = card_type THEN <<card_type, tally[i][2] + 1>> ELSE tally[i]]
    ELSE Append(tally, <<card_type, 1>>)

RECURSIVE DetectFrom(_, _)
DetectFrom(contours, tally) ==
    IF contours = <<>> THEN tally
    ELSE LET c == Head(contours)
             card_type == IdentifyCardType(c.pixels)
         IN  IF AreaRejected(c.area) \/ AspectRejected(c.w, c.h)
             THEN DetectFrom(Tail(contours), tally)
             ELSE IF card_type # "None"
                  THEN DetectFrom(Tail(contours), TallyInc(tally, card_type))
                  ELSE DetectFrom(Tail(contours), tally)

DetectCardsInFrame(frame) == DetectFrom(frame, <<>>)

LoopTallies == {DetectCardsInFrame(f) : f \in Frames(MaxContours)}
DirectTallies == {DetectCardsInFrame(f) : f \in Frames(MaxDirectContours)}

-----------------------------------------------------------------------------
(* The statistics update of capture_and_process_frame *)

CountOf(counts, card_type) ==
    IF card_type \in DOMAIN counts THEN counts[card_type] ELSE 0

\* self.total_frames_processed += 1
IncFrames(n) == n + 1

\* Mutant: the entry is assigned, not added to.
AddCountAssigns(counts, card_type, count) ==
    [l \in DOMAIN counts \cup {card_type} |->
        IF l = card_type THEN count ELSE counts[l]]

\* self.card_counts[card_type] += count
AddCount(counts, card_type, count) ==
    [l \in DOMAIN counts \cup {card_type} |->
        IF l = card_type THEN CountOf(counts, l) + count ELSE counts[l]]

\* Mutant: the total counts labels, not detections.
AddTotalOne(total, count) == total + 1

\* self.total_cards_detected += count
AddTotal(total, count) == total + count

RECURSIVE CountsAfter(_, _)
CountsAfter(counts, tally) ==
    IF tally = <<>> THEN counts
    ELSE CountsAfter(AddCount(counts, Head(tally)[1], Head(tally)[2]), Tail(tally))

RECURSIVE TotalAfter(_, _)
TotalAfter(total, tally) ==
    IF tally = <<>> THEN total
    ELSE TotalAfter(AddTotal(total, Head(tally)[2]), Tail(tally))

\* Mutant: a frame with nothing detected in it is not counted.
FramesAfterSkipsEmpty(frames, tally) ==
    IF tally = <<>> THEN frames ELSE IncFrames(frames)

\* total_frames_processed after the update for one frame: the increment does
\* not look at the tally
FramesAfter(frames, tally) == IncFrames(frames)

RECURSIVE SumCounts(_, _)
SumCounts(counts, keys) ==
    IF keys = {} THEN 0
    ELSE LET k == CHOOSE x \in keys : TRUE
         IN  counts[k] + SumCounts(counts, keys \ {k})

\* sum(card_counts.values())
SumOfCounts(counts) == SumCounts(counts, DOMAIN counts)

\* Mutant: the reset at the reporting boundary clears the frame count.
ResetFrameStatsClears(s) == [s EXCEPT !.frames = 0]

\* reset_frame_stats: pass
ResetFrameStats(s) == s

Stats == [ counts |-> card_counts,
           frames |-> total_frames_processed,
           total  |-> total_cards_detected ]

\* what display_statistics prints of the detector
DisplayStatistics(final) ==
    [ frames |-> total_frames_processed,
      fps    |-> current_fps,
      total  |-> total_cards_detected,
      counts |-> card_counts,
      final  |-> final ]

-----------------------------------------------------------------------------
(* CardDetector.__init__ *)

NoCall == [op |-> "none", arg |-> <<>>, result |-> "None"]

Constructed ==
    /\ card_counts = [l \in {} |-> 0]
    /\ total_frames_processed = 0
    /\ total_cards_detected = 0
    /\ session_start_time = None
    /\ last_update_time = None
    /\ fps_counter = 0
    /\ current_fps = [num |-> 0, den |-> 1]
    /\ duration = None
    /\ current_time = 0
    /\ detected_cards = <<>>
    /\ items = <<>>
    /\ pc = "idle"
    /\ exc = "None"
    /\ raised_at = "nowhere"
    /\ clock = 0
    /\ snapshot = None
    /\ final_snapshots = 0
    /\ appends = 0
    /\ call = NoCall

Init ==
    /\ update_interval \in UpdateIntervals
    /\ monitor_number \in MonitorNumbers
    /\ Constructed

\* CardDetector(): update_interval=1.0, monitor_number=1
DefaultUpdateInterval == 1
DefaultMonitorNumber == 1

InitDefault ==
    /\ update_interval = DefaultUpdateInterval
    /\ monitor_number = DefaultMonitorNumber
    /\ Constructed

-----------------------------------------------------------------------------
(* run(duration) *)

LoopPcs == {"check", "capture", "count_frame", "add_count", "add_total",
            "fps_counter", "time_check", "calc_fps", "display", "reset", "sleep"}

\* if duration and ...: None and 0 are falsy
Truthy(d) == d # None /\ d[1] # 0

\* Mutant: the final statistics are printed by the except clause only, so any
\* other exception goes to the caller without them.
RaiseSkipsFinally(kind) ==
    /\ exc' = kind
    /\ raised_at' = pc
    /\ pc' = "propagated"

\* Mutant: the error is noted and the loop goes on to its next iteration.
RaiseAndContinue(kind) ==
    /\ exc' = kind
    /\ raised_at' = pc
    /\ pc' = "sleep"

\* An exception other than KeyboardInterrupt leaves the try block for finally.
Raise(kind) ==
    /\ exc' = kind
    /\ raised_at' = pc
    /\ pc' = "finally"

\* run() is called: the banner is printed and the two timestamps are taken.
Run ==
    /\ pc = "idle"
    /\ \E d \in Durations : duration' = d
    /\ session_start_time' = Some(clock)
    /\ last_update_time' = Some(clock)
    /\ pc' = "check"
    /\ UNCHANGED <<call, config, stats, fps_counter, current_fps, current_time,
                   detected_cards, items, exc, raised_at, clock, output, appends>>

\* if duration and (time.time() - self.session_start_time) >= duration: break
CheckStop ==
    /\ pc = "check"
    /\ pc' = IF Truthy(duration) /\ clock - session_start_time[1] >= duration[1]
             THEN "finally" ELSE "capture"
    /\ UNCHANGED <<call, config, stats, session_start_time, perf, duration, current_time,
                   detected_cards, items, exc, raised_at, clock, output, appends>>

\* Mutant: the frame is counted where it is analysed, and again in the update.
CaptureFrameCounts ==
    /\ pc = "capture"
    /\ total_frames_processed < MaxFrames
    /\ monitor_number <= NumMonitors
    /\ \E tally \in LoopTallies : detected_cards' = tally
    /\ total_frames_processed' = IncFrames(total_frames_processed)
    /\ pc' = "count_frame"
    /\ UNCHANGED <<call, config, card_counts, total_cards_detected, session_start_time,
                   perf, duration, current_time, items, exc, raised_at, clock, output,
                   appends>>

\* The capture of capture_and_process_frame and its call of
\* detect_cards_in_frame: self.sct.monitors[self.monitor_number], grab, detect.
CaptureFrame ==
    /\ pc = "capture"
    /\ total_frames_processed < MaxFrames
    /\ monitor_number <= NumMonitors
    /\ \E tally \in LoopTallies : detected_cards' = tally
    /\ pc' = "count_frame"
    /\ UNCHANGED <<call, config, stats, session_start_time, perf, duration, current_time,
                   items, exc, raised_at, clock, output, appends>>

\* The capture fails: the monitor index is out of range, or grab raises.
CaptureFails ==
    /\ pc = "capture"
    /\ Raise(IF monitor_number <= NumMonitors THEN "ScreenShotError" ELSE "IndexError")
    /\ UNCHANGED <<call, config, stats, session_start_time, perf, duration, current_time,
                   detected_cards, items, clock, output, appends>>

\* self.total_frames_processed += 1
CountFrame ==
    /\ pc = "count_frame"
    /\ total_frames_processed' = IncFrames(total_frames_processed)
    /\ items' = detected_cards
    /\ pc' = "add_count"
    /\ UNCHANGED <<call, config, card_counts, total_cards_detected, session_start_time, perf,
                   duration, current_time, detected_cards, exc, raised_at, clock,
                   output, appends>>

\* for card_type, count in detected_cards.items():
\*     self.card_counts[card_type] += count
AddCardCount ==
    /\ pc = "add_count"
    /\ items # <<>>
    /\ card_counts' = AddCount(card_counts, Head(items)[1], Head(items)[2])
    /\ pc' = "add_total"
    /\ UNCHANGED <<call, config, total_frames_processed, total_cards_detected,
                   session_start_time, perf, duration, current_time, detected_cards,
                   items, exc, raised_at, clock, output, appends>>

\*     self.total_cards_detected += count
AddCardTotal ==
    /\ pc = "add_total"
    /\ total_cards_detected' = AddTotal(total_cards_detected, Head(items)[2])
    /\ items' = Tail(items)
    /\ pc' = "add_count"
    /\ UNCHANGED <<call, config, card_counts, total_frames_processed, session_start_time,
                   perf, duration, current_time, detected_cards, exc, raised_at, clock,
                   output, appends>>

\* return frame, detected_cards: the loop is over and the call's locals are gone
\* (run() never reads what it is handed back).
ReturnFrame ==
    /\ pc = "add_count"
    /\ items = <<>>
    /\ detected_cards' = <<>>
    /\ appends' = appends + 1
    /\ pc' = "fps_counter"
    /\ UNCHANGED <<call, config, stats, session_start_time, perf, duration, current_time,
                   items, exc, raised_at, clock, output>>

\* self.fps_counter += 1
UpdateFpsCounter ==
    /\ pc = "fps_counter"
    /\ fps_counter' = fps_counter + 1
    /\ pc' = "time_check"
    /\ UNCHANGED <<call, config, stats, session_start_time, last_update_time, current_fps,
                   duration, current_time, detected_cards, items, exc, raised_at, clock,
                   output, appends>>

\* time_since_update, computed from the local current_time
TimeSinceUpdate == current_time - last_update_time[1]

\* current_time = time.time(); if time_since_update >= self.update_interval:
CheckUpdate ==
    /\ pc = "time_check"
    /\ current_time' = clock
    /\ pc' = IF clock - last_update_time[1] >= update_interval THEN "calc_fps" ELSE "sleep"
    /\ UNCHANGED <<call, config, stats, session_start_time, perf, duration, detected_cards,
                   items, exc, raised_at, clock, output, appends>>

\* self.current_fps = self.fps_counter / time_since_update
CalculateFps ==
    /\ pc = "calc_fps"
    /\ IF TimeSinceUpdate = 0
       THEN /\ Raise("ZeroDivisionError")
            /\ UNCHANGED current_fps
       ELSE /\ current_fps' = [num |-> fps_counter, den |-> TimeSinceUpdate]
            /\ pc' = "display"
            /\ UNCHANGED <<exc, raised_at>>
    /\ UNCHANGED <<call, config, stats, session_start_time, last_update_time, fps_counter,
                   duration, current_time, detected_cards, items, clock, output, appends>>

\* Mutant: the breakdown is printed by looking every label up in
\* card_counts, which creates the keys that were missing.
DisplayPeriodicCreatesKeys ==
    /\ pc = "display"
    /\ snapshot' = Some(DisplayStatistics(FALSE))
    /\ card_counts' = [l \in Labels |-> CountOf(card_counts, l)]
    /\ pc' = "reset"
    /\ UNCHANGED <<call, config, total_frames_processed, total_cards_detected,
                   session_start_time, perf, duration, current_time, detected_cards,
                   items, exc, raised_at, clock, final_snapshots, appends>>

\* self.display_statistics()
DisplayPeriodic ==
    /\ pc = "display"
    /\ snapshot' = Some(DisplayStatistics(FALSE))
    /\ pc' = "reset"
    /\ UNCHANGED <<call, config, stats, session_start_time, perf, duration, current_time,
                   detected_cards, items, exc, raised_at, clock, final_snapshots,
                   appends>>

\* self.last_update_time = current_time; self.fps_counter = 0;
\* self.reset_frame_stats()
ResetCounters ==
    /\ pc = "reset"
    /\ last_update_time' = Some(current_time)
    /\ fps_counter' = 0
    /\ card_counts' = ResetFrameStats(Stats).counts
    /\ total_frames_processed' = ResetFrameStats(Stats).frames
    /\ total_cards_detected' = ResetFrameStats(Stats).total
    /\ pc' = "sleep"
    /\ UNCHANGED <<call, config, session_start_time, current_fps, duration, current_time,
                   detected_cards, items, exc, raised_at, clock, output, appends>>

\* time.sleep(0.01)
Sleep ==
    /\ pc = "sleep"
    /\ pc' = "check"
    /\ UNCHANGED <<call, config, stats, session_start_time, perf, duration, current_time,
                   detected_cards, items, exc, raised_at, clock, output, appends>>

\* Ctrl+C: KeyboardInterrupt is raised at the statement the loop is about to run.
KeyboardInterrupt ==
    /\ pc \in LoopPcs
    /\ exc = "None"
    /\ exc' = "KeyboardInterrupt"
    /\ raised_at' = pc
    /\ pc' = "except"
    /\ UNCHANGED <<call, config, stats, session_start_time, perf, duration, current_time,
                   detected_cards, items, clock, output, appends>>

\* except KeyboardInterrupt: print("Stopping card detection system...")
ExceptKeyboardInterrupt ==
    /\ pc = "except"
    /\ exc' = "None"
    /\ pc' = "finally"
    /\ UNCHANGED <<call, config, stats, session_start_time, perf, duration, current_time,
                   detected_cards, items, raised_at, clock, output, appends>>

\* finally: the final statistics are displayed, then run() returns or the
\* exception that left the try block goes on to the caller.
Finally ==
    /\ pc = "finally"
    /\ snapshot' = Some(DisplayStatistics(TRUE))
    /\ final_snapshots' = final_snapshots + 1
    /\ pc' = IF exc = "None" THEN "returned" ELSE "propagated"
    /\ UNCHANGED <<call, config, stats, session_start_time, perf, duration, current_time,
                   detected_cards, items, exc, raised_at, clock, appends>>

\* Time passes while run() executes.  The clock is read at the top of the loop
\* and after the frame is processed, so it is enough that it advances while
\* the frame is captured and during the sleep.
Tick ==
    /\ pc \in {"capture", "sleep"}
    /\ clock < MaxTime
    /\ clock' = clock + 1
    /\ UNCHANGED <<call, config, stats, session_start_time, perf, duration, current_time,
                   detected_cards, items, pc, exc, raised_at, output, appends>>

Next ==
    \/ Run
    \/ CheckStop
    \/ CaptureFrame
    \/ CaptureFails
    \/ CountFrame
    \/ AddCardCount
    \/ AddCardTotal
    \/ ReturnFrame
    \/ UpdateFpsCounter
    \/ CheckUpdate
    \/ CalculateFps
    \/ DisplayPeriodic
    \/ ResetCounters
    \/ Sleep
    \/ KeyboardInterrupt
    \/ ExceptKeyboardInterrupt
    \/ Finally
    \/ Tick

Spec == Init /\ [][Next]_vars

-----------------------------------------------------------------------------
(* capture_and_process_frame called directly on a detector, as the tests    *)
(* and demo.py's programmatic access use it, each call running to its end.  *)

\* The capture and detect_cards_in_frame of a direct call.
CaptureDirect ==
    /\ pc = "idle"
    /\ appends < MaxCalls
    /\ monitor_number <= NumMonitors
    /\ \E tally \in DirectTallies : detected_cards' = tally
    /\ exc' = "None"
    /\ pc' = "update_statistics"
    /\ UNCHANGED <<call, config, stats, session_start_time, perf, duration, current_time,
                   items, raised_at, clock, output, appends>>

\* The direct call raises out of the capture: nothing is updated.
CaptureDirectFails ==
    /\ pc = "idle"
    /\ appends < MaxCalls
    /\ exc' = IF monitor_number <= NumMonitors THEN "ScreenShotError" ELSE "IndexError"
    /\ UNCHANGED <<call, config, stats, session_start_time, perf, duration, current_time,
                   detected_cards, items, pc, raised_at, clock, output, appends>>

\* The statistics update of the call, from self.total_frames_processed += 1
\* to the return.
UpdateStatistics ==
    /\ pc = "update_statistics"
    /\ total_frames_processed' = FramesAfter(total_frames_processed, detected_cards)
    /\ card_counts' = CountsAfter(card_counts, detected_cards)
    /\ total_cards_detected' = TotalAfter(total_cards_detected, detected_cards)
    /\ detected_cards' = <<>>
    /\ appends' = appends + 1
    /\ pc' = "idle"
    /\ UNCHANGED <<call, config, session_start_time, perf, duration, current_time, items,
                   exc, raised_at, clock, output>>

NextAppend ==
    \/ CaptureDirect
    \/ CaptureDirectFails
    \/ UpdateStatistics

SpecAppend == InitDefault /\ [][NextAppend]_vars

-----------------------------------------------------------------------------
(* _identify_card_type and detect_cards_in_frame called directly on a       *)
(* freshly constructed detector, as the tests call them.  Neither reads     *)
(* anything a previous call left behind, so one call is followed from each  *)
(* construction.                                                            *)

\* Channel intensities on both sides of every threshold of the classifier.
ChannelValues == {0, 30, 49, 50, 99, 100, 150, 151, 200, 255}

Pixels == ChannelValues \X ChannelValues \X ChannelValues

\* Regions of one colour, regions mixing the colours of the tests, and the
\* empty region.
Regions ==
    {<<>>}
    \cup {[i \in 1 .. k |-> px] : k \in 1 .. MaxRegionPixels, px \in Pixels}
    \cup [1 .. 2 -> {RedPixel, BlackPixel, GrayPixel}]

\* Contour areas and bounding rectangles <<w, h>> on and next to the limits
\* of the two filters; a rectangle without width or height has no pixels.
BoundaryAreas == {999, 1000, 5000, 100000, 100001}
BoundaryRects == {<<1, 2>>, <<4, 5>>, <<49, 100>>, <<81, 100>>, <<5, 0>>, <<0, 5>>}

BoundaryContours ==
    {Contour(a, 60, 100, <<px>>) :
        a \in BoundaryAreas, px \in {RedPixel, BlackPixel, GrayPixel}}
    \cup {Contour(5000, r[1], r[2], IF r[1] * r[2] = 0 THEN <<>> ELSE <<px>>) :
        r \in BoundaryRects, px \in {RedPixel, BlackPixel, GrayPixel}}

DetectFrames == UNION {[1 .. k -> BoundaryContours] : k \in 0 .. MaxDetectContours}

\* card_type = detector._identify_card_type(roi)
IdentifyCardTypeCall ==
    /\ pc = "idle"
    /\ call = NoCall
    /\ \E roi \in Regions :
          call' = [op |-> "identify", arg |-> roi, result |-> IdentifyCardType(roi)]
    /\ UNCHANGED <<config, stats, session_start_time, perf, duration, current_time,
                   detected_cards, items, pc, exc, raised_at, clock, output, appends>>

\* detected_cards = detector.detect_cards_in_frame(frame)
DetectCardsInFrameCall ==
    /\ pc = "idle"
    /\ call = NoCall
    /\ \E frame \in DetectFrames :
          call' = [op |-> "detect", arg |-> frame, result |-> DetectCardsInFrame(frame)]
    /\ UNCHANGED <<config, stats, session_start_time, perf, duration, current_time,
                   detected_cards, items, pc, exc, raised_at, clock, output, appends>>

NextDetect ==
    \/ IdentifyCardTypeCall
    \/ DetectCardsInFrameCall

SpecDetect == InitDefault /\ [][NextDetect]_vars

-----------------------------------------------------------------------------
(* Properties of the statistics update *)

\* The count a tally holds for a label, 0 if the label is not in it.
TallyCount(tally, card_type) ==
    IF \E i \in 1 .. Len(tally) : tally[i][1] = card_type
    THEN (CHOOSE e \in {tally[i] : i \in 1 .. Len(tally)} : e[1] = card_type)[2]
    ELSE 0

TallyLabels(tally) == {tally[i][1] : i \in 1 .. Len(tally)}

\* C1: after every completed statistics update, total_cards_detected is the
\* sum of the values of card_counts.
TotalIsSumOfCounts ==
    total_cards_detected = SumOfCounts(card_counts)

\* C1 witness: two updates are complete, two labels are counted and one of
\* them more than once.
TotalIsSumOfCountsWitness ==
    /\ pc = "idle"
    /\ appends = 2
    /\ Cardinality(DOMAIN card_counts) = 2
    /\ \E l \in DOMAIN card_counts : card_counts[l] >= 3

\* C2: after N completed updates total_frames_processed is N, whatever the
\* tallies were.
FramesIsAppends ==
    total_frames_processed = appends

\* C2 witness: three frames are counted and none of them had a detection.
FramesIsAppendsWitness ==
    /\ pc = "idle"
    /\ appends = 3
    /\ total_frames_processed = 3
    /\ total_cards_detected = 0

\* C3: an update adds each count of the tally to that label's cumulative
\* entry and to no other: the entries of the labels the tally does not hold
\* stay as they are, and no other key appears.
UpdateAddsTally ==
    [][pc = "update_statistics" =>
          /\ \A l \in Labels :
                CountOf(card_counts', l) = CountOf(card_counts, l) + TallyCount(detected_cards, l)
          /\ \A l \in Labels \ TallyLabels(detected_cards) :
                (l \in DOMAIN card_counts') = (l \in DOMAIN card_counts)
          /\ DOMAIN card_counts' = DOMAIN card_counts \cup TallyLabels(detected_cards)]_vars

\* C3 witness: the tallies {A: 5}, {B: 3}, {} have been appended.
UpdateAddsTallyWitness ==
    /\ pc = "idle"
    /\ appends = 3
    /\ total_frames_processed = 3
    /\ total_cards_detected = 8
    /\ card_counts = [l \in {"heart_or_diamond", "spade_or_club"} |->
                         IF l = "heart_or_diamond" THEN 5 ELSE 3]

-----------------------------------------------------------------------------
(* Properties of run() *)

\* C4: no step of the loop lowers total_frames_processed, total_cards_detected
\* or a cumulative count, or drops a key; the reset at a reporting boundary
\* leaves them as they are and sets fps_counter to 0, and nothing else
\* lowers fps_counter.
CumulativeNeverDecreases ==
    [][/\ total_frames_processed' >= total_frames_processed
       /\ total_cards_detected' >= total_cards_detected
       /\ DOMAIN card_counts \subseteq DOMAIN card_counts'
       /\ \A l \in DOMAIN card_counts : card_counts'[l] >= card_counts[l]
       /\ (pc = "reset" /\ pc' = "sleep") =>
             /\ fps_counter' = 0
             /\ card_counts' = card_counts
             /\ total_frames_processed' = total_frames_processed
             /\ total_cards_detected' = total_cards_detected
       /\ fps_counter' < fps_counter => (pc = "reset" /\ pc' = "sleep")]_vars

\* C4 witness: the second frame's report has just reset fps_counter and the
\* cumulative statistics are still there.
CumulativeNeverDecreasesWitness ==
    /\ pc = "sleep"
    /\ fps_counter = 0
    /\ total_frames_processed = 2
    /\ total_cards_detected >= 2

\* C5: when run() has returned or let an exception through, the final
\* statistics have been printed exactly once and are the last thing printed;
\* before that they have not been printed.
OneFinalSnapshot ==
    /\ pc \in {"returned", "propagated"} =>
          /\ final_snapshots = 1
          /\ snapshot # None
          /\ snapshot[1].final
    /\ pc \in LoopPcs \cup {"idle", "except", "finally"} => final_snapshots = 0

\* C5 witness: the capture of the second frame failed and the error went to
\* the caller after the final statistics.
OneFinalSnapshotWitness ==
    /\ pc = "propagated"
    /\ exc = "ScreenShotError"
    /\ total_frames_processed = 1
    /\ final_snapshots = 1

\* C6: with duration 0 the loop stops after at most one iteration.
DurationZeroStops ==
    (pc # "idle" /\ duration = Some(0)) => total_frames_processed <= 1

\* C7: a stop signal is honoured only between frames: KeyboardInterrupt never
\* ends a frame that is captured but whose statistics update is not complete.
NoMidFrameCancellation ==
    pc = "except" =>
        ~ \/ raised_at = "count_frame"
          \/ raised_at = "add_total"
          \/ (raised_at = "add_count" /\ items # <<>>)

\* C8: every statistics display shows a total that is the sum of the counts
\* it shows.
SnapshotsConsistent ==
    snapshot # None => snapshot[1].total = SumOfCounts(snapshot[1].counts)

\* interval <= 0, duration <= 0 or a monitor the capture library does not have
InvalidConfiguration ==
    \/ update_interval <= 0
    \/ monitor_number > NumMonitors
    \/ (duration # None /\ duration[1] <= 0)

\* C9: with an invalid configuration the loop is never entered and no frame
\* is captured.
InvalidConfigurationNeverRuns ==
    InvalidConfiguration =>
        /\ pc \notin LoopPcs
        /\ total_frames_processed = 0

\* C10: the rate computation never divides by zero, and the rate it stores is
\* fps_counter / time_since_update.
RateNeverDividesByZero ==
    /\ exc # "ZeroDivisionError"
    /\ pc = "display" =>
          /\ current_fps.den > 0
          /\ current_fps.num * TimeSinceUpdate = fps_counter * current_fps.den

AcquisitionErrors == {"IndexError", "ScreenShotError"}

\* C11: once a capture has failed the loop is left for good: run() is in its
\* finally clause or has passed the error on, the error is not cleared, no
\* further frame is counted, and the error is passed on only after the final
\* statistics.
AcquisitionFailureIsFatal ==
    [][(exc \in AcquisitionErrors) =>
         (/\ raised_at = "capture"
          /\ pc \in {"finally", "propagated"}
          /\ pc = "propagated" => (final_snapshots = 1 /\ snapshot[1].final)
          /\ exc' = exc
          /\ pc' \in {"finally", "propagated"}
          /\ total_frames_processed' = total_frames_processed
          /\ detected_cards' = detected_cards)]_vars

\* C11 witness: the very first capture failed on a monitor that does not
\* exist, and the error reached the caller after the final statistics.
AcquisitionFailureIsFatalWitness ==
    /\ pc = "propagated"
    /\ exc = "IndexError"
    /\ total_frames_processed = 0
    /\ final_snapshots = 1
    /\ snapshot[1].final

-----------------------------------------------------------------------------
(* Properties of the classifier and the filters *)

RECURSIVE TallySum(_)
TallySum(tally) ==
    IF tally = <<>> THEN 0 ELSE Head(tally)[2] + TallySum(Tail(tally))

Uniform(roi) == \A i \in 1 .. Len(roi) : roi[i] = roi[1]

\* The rules of the classifier on the three channel values of a colour.
LabelOfColour(px) ==
    IF px[3] > 150 /\ px[1] < 100 /\ px[2] < 100 THEN "heart_or_diamond"
    ELSE IF px[1] < 50 /\ px[2] < 50 /\ px[3] < 50 THEN "spade_or_club"
    ELSE "unknown_card"

\* C12: a non-empty region is labelled by the first rule its channel means
\* satisfy: red family, else black family, else unknown; means (50,50,200),
\* (30,30,30) and (100,100,100) give the three labels.
ClassifierRules ==
    (call.op = "identify" /\ call.arg # <<>>) =>
        /\ Uniform(call.arg) => call.result = LabelOfColour(call.arg[1])
        /\ call.result = "heart_or_diamond" <=>
              /\ MeanAbove(call.arg, 3, 150)
              /\ MeanBelow(call.arg, 1, 100)
              /\ MeanBelow(call.arg, 2, 100)
        /\ call.result = "spade_or_club" <=>
              /\ ~ (MeanAbove(call.arg, 3, 150) /\ MeanBelow(call.arg, 1, 100)
                    /\ MeanBelow(call.arg, 2, 100))
              /\ MeanBelow(call.arg, 1, 50)
              /\ MeanBelow(call.arg, 2, 50)
              /\ MeanBelow(call.arg, 3, 50)
        /\ call.result \in Labels
        /\ call.arg = <<RedPixel>> => call.result = "heart_or_diamond"
        /\ call.arg = <<BlackPixel>> => call.result = "spade_or_club"
        /\ call.arg = <<GrayPixel>> => call.result = "unknown_card"

\* C12 witness: the region of means (50, 50, 200) has been classified.
ClassifierRulesWitness ==
    call = [op |-> "identify", arg |-> <<RedPixel>>, result |-> "heart_or_diamond"]

\* The contours of a frame that pass both filters and are given a label.
Labelled(frame) ==
    {i \in 1 .. Len(frame) :
        /\ ~ AreaRejected(frame[i].area)
        /\ ~ AspectRejected(frame[i].w, frame[i].h)
        /\ IdentifyCardType(frame[i].pixels) # "None"}

\* C13: the empty region is answered with None, and the counts of a frame's
\* tally add up to the number of its contours that were given a label; None
\* is no key of a tally.
EmptyRegionIsNoMatch ==
    /\ (call.op = "identify" /\ call.arg = <<>>) => call.result = "None"
    /\ call.op = "detect" =>
          /\ TallySum(call.result) = Cardinality(Labelled(call.arg))
          /\ TallyLabels(call.result) \subseteq Labels

\* C13 witness: _identify_card_type was given the empty region.
EmptyRegionIsNoMatchWitness ==
    call = [op |-> "identify", arg |-> <<>>, result |-> "None"]

\* width / height within [0.5, 0.8]
AspectInBand(c) == c.h > 0 /\ 2 * c.w >= c.h /\ 5 * c.w <= 4 * c.h

\* C14 as claimed: of contours with an admissible rectangle, exactly those of
\* area in [1000, 100000) are tallied.
AreaBandHalfOpen ==
    (call.op = "detect" /\ \A i \in 1 .. Len(call.arg) : AspectInBand(call.arg[i])) =>
        TallySum(call.result) =
            Cardinality({i \in 1 .. Len(call.arg) :
                            1000 <= call.arg[i].area /\ call.arg[i].area < 100000})

\* C14 amended: of contours with an admissible rectangle, exactly those of
\* area in [1000, 100000], both limits included, are tallied.
AreaBandClosed ==
    (call.op = "detect" /\ \A i \in 1 .. Len(call.arg) : AspectInBand(call.arg[i])) =>
        TallySum(call.result) =
            Cardinality({i \in 1 .. Len(call.arg) :
                            1000 <= call.arg[i].area /\ call.arg[i].area <= 100000})

\* C14 witness: a frame with one contour of area 100000 and one of area 1000,
\* both tallied.
AreaBandClosedWitness ==
    /\ call.op = "detect"
    /\ Len(call.arg) = 2
    /\ call.arg[1].area = 100000
    /\ call.arg[2].area = 1000
    /\ TallySum(call.result) = 2

\* C15: of contours with an area inside the band, exactly those with
\* width / height in [0.5, 0.8], both limits included, are tallied; a
\* rectangle of height 0 is not.
AspectBandClosed ==
    (/\ call.op = "detect"
     /\ \A i \in 1 .. Len(call.arg) :
           1000 <= call.arg[i].area /\ call.arg[i].area < 100000) =>
        TallySum(call.result) =
            Cardinality({i \in 1 .. Len(call.arg) : AspectInBand(call.arg[i])})

\* C15 witness: a frame with a 4 x 5 rectangle, tallied, and one of height 0,
\* not tallied.
AspectBandClosedWitness ==
    /\ call.op = "detect"
    /\ Len(call.arg) = 2
    /\ call.arg[1].w = 4 /\ call.arg[1].h = 5
    /\ call.arg[2].h = 0
    /\ TallySum(call.result) = 1

\* The classifier with the black rule tried first.
IdentifyBlackFirst(roi) ==
    IF Len(roi) = 0 THEN "None"
    ELSE IF BlackFamily(roi) THEN "spade_or_club"
    ELSE IF RedFamily(roi) THEN "heart_or_diamond"
    ELSE "unknown_card"

\* C20: no region satisfies the red rule and the black rule, so the label
\* is the same with the two rules tried in the other order.
RulesExclusive ==
    call.op = "identify" =>
        /\ ~ (RedFamily(call.arg) /\ BlackFamily(call.arg))
        /\ call.result = IdentifyBlackFirst(call.arg)

\* C20 witness: means (49, 49, 151), inside the blue and green limits of both
\* rules, are labelled red.
RulesExclusiveWitness ==
    call = [op |-> "identify", arg |-> << <<49, 49, 151>> >>,
            result |-> "heart_or_diamond"]

-----------------------------------------------------------------------------
(* Properties of the loop's steps *)

\* a step in which display_statistics runs to its end
DisplayStep ==
    \/ pc = "display" /\ pc' = "reset"
    \/ pc = "finally" /\ pc' \in {"returned", "propagated"}

\* C16: display_statistics changes none of total_frames_processed,
\* total_cards_detected, card_counts (keys and values), current_fps,
\* fps_counter and last_update_time, and what it shows is what they hold.
DisplayMutatesNothing ==
    [][DisplayStep =>
         /\ total_frames_processed' = total_frames_processed
         /\ total_cards_detected' = total_cards_detected
         /\ DOMAIN card_counts' = DOMAIN card_counts
         /\ card_counts' = card_counts
         /\ current_fps' = current_fps
         /\ fps_counter' = fps_counter
         /\ last_update_time' = last_update_time
         /\ snapshot'[1].counts = card_counts
         /\ snapshot'[1].frames = total_frames_processed
         /\ snapshot'[1].total = total_cards_detected]_vars

\* C16 witness: a periodic report has been displayed after a frame with no
\* detections, and card_counts still has no key.
DisplayMutatesNothingWitness ==
    /\ pc = "reset"
    /\ snapshot # None
    /\ ~ snapshot[1].final
    /\ snapshot[1].frames = 1
    /\ snapshot[1].total = 0
    /\ DOMAIN card_counts = {}
    /\ total_frames_processed = 1

\* C17: the step that analyses a frame changes none of
\* total_frames_processed, total_cards_detected and card_counts, and
\* total_frames_processed changes only in the update that follows it, by one.
DetectLeavesStatistics ==
    [][/\ (pc = "capture" /\ pc' = "count_frame") =>
             /\ total_frames_processed' = total_frames_processed
             /\ total_cards_detected' = total_cards_detected
             /\ card_counts' = card_counts
       /\ total_frames_processed' # total_frames_processed =>
             /\ pc = "count_frame"
             /\ total_frames_processed' = total_frames_processed + 1]_vars

\* C17 witness: a frame has been analysed into a tally of two detections and
\* the statistics are those of the construction.
DetectLeavesStatisticsWitness ==
    /\ pc = "count_frame"
    /\ TallySum(detected_cards) = 2
    /\ total_frames_processed = 0
    /\ total_cards_detected = 0
    /\ DOMAIN card_counts = {}

\* C18: in an iteration that is not interrupted, the report is made exactly
\* when the time since the last one is at least update_interval; it stores
\* fps_counter / time_since_update, displays the statistics, and sets
\* last_update_time to current_time and fps_counter to 0.  Without a report
\* current_fps and last_update_time stay, and fps_counter has grown by one.
PeriodicReport ==
    [][pc' # "except" =>
         /\ pc = "fps_counter" =>
               /\ fps_counter' = fps_counter + 1
               /\ pc' = "time_check"
         /\ pc = "time_check" =>
               /\ pc' = IF clock - last_update_time[1] >= update_interval
                        THEN "calc_fps" ELSE "sleep"
               /\ UNCHANGED perf
         /\ pc = "calc_fps" =>
               /\ pc' = "display"
               /\ current_fps'.den # 0
               /\ current_fps'.num * TimeSinceUpdate = fps_counter * current_fps'.den
         /\ pc = "display" =>
               /\ pc' = "reset"
               /\ snapshot' = Some(DisplayStatistics(FALSE))
         /\ pc = "reset" =>
               /\ pc' = "sleep"
               /\ last_update_time' = Some(current_time)
               /\ fps_counter' = 0
               /\ current_fps' = current_fps
         /\ pc \in LoopPcs \ {"fps_counter", "calc_fps", "reset"} =>
               UNCHANGED perf]_vars

\* C19: the stop condition is checked before the capture, so an iteration
\* whose check sees the duration elapsed captures nothing, and without a
\* duration the loop is left only by Ctrl+C or by a capture that failed.
StopsOnlyAsConfigured ==
    [][/\ (pc = "check" /\ Truthy(duration)
              /\ clock - session_start_time[1] >= duration[1]) =>
             pc' \in {"finally", "except"}
       /\ pc' = "capture" => pc \in {"check", "capture"}
       /\ (duration = None /\ pc \in LoopPcs /\ pc' = "finally") =>
             exc' \in AcquisitionErrors]_vars

-----------------------------------------------------------------------------
(* run() called again on the same detector *)

MaxRuns == 2

\* run() is called on a detector whose earlier run() has ended, by return or
\* by an exception its caller caught: the two timestamps are taken anew and
\* every other attribute is as the earlier run left it.
RunAgain ==
    /\ pc \in {"returned", "propagated"}
    /\ final_snapshots < MaxRuns
    /\ \E d \in Durations : duration' = d
    /\ session_start_time' = Some(clock)
    /\ last_update_time' = Some(clock)
    /\ exc' = "None"
    /\ raised_at' = "nowhere"
    /\ pc' = "check"
    /\ UNCHANGED <<call, config, stats, fps_counter, current_fps, current_time,
                   detected_cards, items, clock, output, appends>>

NextRerun == Next \/ RunAgain

SpecRerun == InitDefault /\ [][NextRerun]_vars

\* C21: whenever run() is entered, for the first time or again, fps_counter
\* is 0, so the first rate of a run counts only that run's frames.
CounterZeroAtStart ==
    [][(pc \in {"idle", "returned", "propagated"} /\ pc' = "check") =>
         fps_counter' = 0]_vars

====
